---- MODULE Spec2Model ----
(***************************************************************************)
(* Model of rlaakso/amzn: the signed Product Advertising item lookup       *)
(* (item-lookup.go lines 16-184) and the paginated wishlist export         *)
(* (lines 201-365).                                                        *)
(*                                                                         *)
(* Go strings are byte strings: a string is modelled as a sequence of byte *)
(* values 0..255, so that ordering, escaping and the byte comparison of    *)
(* the currency test are computed as the code computes them.               *)
(***************************************************************************)
EXTENDS Integers, Sequences, FiniteSets, TLC

(***************************************************************************)
(* Bounds of the model.                                                    *)
(***************************************************************************)
\* largest number of entries of a parameter map handed to signRequest
MaxParams == 3

VARIABLES
    \* item lookup (lines 16-184)
    env,        \* process environment and arguments: AWS_KEY, AWS_SECRET, args
    pc,         \* position of the program
    cred,       \* AWSCredentials
    params,     \* AWSQuery.params as handed to signRequest
    signed,     \* what signRequest returned, with the iteration order it saw
    signed2,    \* what a second signRequest over the same map returned
    request,    \* the request URL of lookupItem
    httpGets,   \* the URLs http.Get was called with, in order
    itemXml,    \* the parsed response document
    item,       \* ItemAttributes
    response,   \* what http.Get came back with
    stdout,     \* what main printed
    outcome,    \* how the process ended
    \* wishlist export (lines 201-365)
    site,       \* the wishlist as the site serves it: its pages, in order
    pageNo,     \* loop variable of main
    page,       \* the page text getPage returned
    scanIdx,    \* position of the item loop in idx
    fetched,    \* the page numbers getPage was called for, in order
    yielded,    \* the items printed so far, with the page each came from
    \* parseItemData applied to drawn arguments
    parseArgs,  \* itemid and item
    parsed      \* what parseItemData returned

lookupVars == <<cred, params, signed, signed2, request, httpGets, response,
                itemXml, item, stdout>>

wishVars == <<site, pageNo, page, scanIdx, fetched, yielded, parseArgs, parsed>>

vars == <<env, pc, outcome, lookupVars, wishVars>>

\* the absent value of an optional
NoValue == [none |-> TRUE]

\* the item lookup before it has started
LookupIdle ==
    /\ cred = NoValue
    /\ params = NoValue
    /\ signed = NoValue
    /\ signed2 = NoValue
    /\ request = NoValue
    /\ httpGets = <<>>
    /\ response = NoValue
    /\ itemXml = NoValue
    /\ item = NoValue
    /\ stdout = <<>>

\* the wishlist export before it has started
WishIdle ==
    /\ site = <<>>
    /\ pageNo = 1
    /\ page = NoValue
    /\ scanIdx = 1
    /\ fetched = <<>>
    /\ yielded = <<>>
    /\ parseArgs = NoValue
    /\ parsed = NoValue

(***************************************************************************)
(* String literals of the source, as bytes.                                *)
(***************************************************************************)
S_GET == <<71, 69, 84>>  \* "GET"
S_PATH == <<47, 111, 110, 99, 97, 47, 120, 109, 108>>  \* "/onca/xml"
S_HTTP == <<104, 116, 116, 112, 58, 47, 47>>  \* "http://"
S_QMARK == <<63>>  \* "?"
S_SIGPARAM == <<38, 83, 105, 103, 110, 97, 116, 117, 114, 101, 61>>  \* "&Signature="
S_HOST == <<101, 99, 115, 46, 97, 109, 97, 122, 111, 110, 97, 119, 115, 46, 99, 111, 46, 117, 107>>  \* "ecs.amazonaws.co.uk"
S_EQ == <<61>>  \* "="
S_AMP == <<38>>  \* "&"
S_NL == <<10>>  \* "\n"
K_Service == <<83, 101, 114, 118, 105, 99, 101>>  \* "Service"
K_Version == <<86, 101, 114, 115, 105, 111, 110>>  \* "Version"
K_AssociateTag == <<65, 115, 115, 111, 99, 105, 97, 116, 101, 84, 97, 103>>  \* "AssociateTag"
K_Timestamp == <<84, 105, 109, 101, 115, 116, 97, 109, 112>>  \* "Timestamp"
K_AWSAccessKeyId == <<65, 87, 83, 65, 99, 99, 101, 115, 115, 75, 101, 121, 73, 100>>  \* "AWSAccessKeyId"
K_Operation == <<79, 112, 101, 114, 97, 116, 105, 111, 110>>  \* "Operation"
K_ItemId == <<73, 116, 101, 109, 73, 100>>  \* "ItemId"
K_ResponseGroup == <<82, 101, 115, 112, 111, 110, 115, 101, 71, 114, 111, 117, 112>>  \* "ResponseGroup"
V_Service == <<65, 87, 83, 69, 67, 111, 109, 109, 101, 114, 99, 101, 83, 101, 114, 118, 105, 99, 101>>  \* "AWSECommerceService"
V_Version == <<50, 48, 49, 49, 45, 48, 56, 45, 48, 49>>  \* "2011-08-01"
V_AssociateTag == <<80, 117, 116, 89, 111, 117, 114, 65, 115, 115, 111, 99, 105, 97, 116, 101, 84, 97, 103, 72, 101, 114, 101>>  \* "PutYourAssociateTagHere"
V_Operation == <<73, 116, 101, 109, 76, 111, 111, 107, 117, 112>>  \* "ItemLookup"
S_DELIM == <<9>>  \* "\t"
S_COMMA == <<44, 32>>  \* ", "
S_ED == <<32, 101, 100>>  \* " ed"
S_PAGES == <<32, 112, 97, 103, 101, 115>>  \* " pages"
V_ResponseGroup == <<73, 116, 101, 109, 65, 116, 116, 114, 105, 98, 117, 116, 101, 115>>  \* "ItemAttributes"

(***************************************************************************)
(* Library functions the source calls, computed on bytes.                  *)
(***************************************************************************)
\* Go's < on strings: lexicographic order of the bytes
RECURSIVE LessFrom(_, _, _)
LessFrom(a, b, i) ==
    IF i > Len(b) THEN FALSE
    ELSE IF i > Len(a) THEN TRUE
    ELSE IF a[i] # b[i] THEN a[i] < b[i]
    ELSE LessFrom(a, b, i + 1)

StrLess(a, b) == LessFrom(a, b, 1)

\* strings.Join(parts, sep)
RECURSIVE Join(_, _)
Join(parts, sep) ==
    IF parts = <<>> THEN <<>>
    ELSE IF Len(parts) = 1 THEN parts[1]
    ELSE parts[1] \o sep \o Join(Tail(parts), sep)

\* insertion of data[i] into the sorted prefix, moving left while less
RECURSIVE InsertLeft(_, _)
InsertLeft(sorted, x) ==
    IF sorted = <<>> THEN <<x>>
    ELSE IF StrLess(x, sorted[Len(sorted)])
         THEN Append(InsertLeft(SubSeq(sorted, 1, Len(sorted) - 1), x), sorted[Len(sorted)])
         ELSE Append(sorted, x)

RECURSIVE InsertionSort(_, _)
InsertionSort(done, rest) ==
    IF rest = <<>> THEN done
    ELSE InsertionSort(InsertLeft(done, Head(rest)), Tail(rest))

\* a plausible slip: the sort is left out and the slice is used as the map
\* iteration produced it
SortStrings_unsorted(data) == data

\* sort.Strings(data): ascending byte order (insertion sort below 12 elements)
SortStrings(data) == InsertionSort(<<>>, data)

\* net/url shouldEscape in query-component mode: unreserved bytes stay
Unreserved(c) ==
    \/ c \in 48..57 \/ c \in 65..90 \/ c \in 97..122
    \/ c \in {45, 95, 46, 126}

HexDigit(n) == IF n < 10 THEN 48 + n ELSE 55 + n

\* url.QueryEscape: space becomes '+', every other reserved byte %XX
RECURSIVE QueryEscape(_)
QueryEscape(s) ==
    IF s = <<>> THEN <<>>
    ELSE LET c == Head(s)
             e == IF Unreserved(c) THEN <<c>>
                  ELSE IF c = 32 THEN <<43>>
                  ELSE <<37, HexDigit(c \div 16), HexDigit(c % 16)>>
         IN  e \o QueryEscape(Tail(s))

\* hmac.New(sha256.New, key); Write(data); Sum(nil), then base64 and
\* url.QueryEscape.  The digest is kept symbolic: a value determined by
\* (key, data) and by nothing else, distinct for distinct arguments.
signHmacSha256(data, key) ==
    [escaped |-> "QueryEscape(base64(HMAC-SHA256))", key |-> key, data |-> data]

(***************************************************************************)
(* signRequest                                                             *)
(***************************************************************************)
\* some enumeration of a finite set, the base the orders permute
RECURSIVE SetToSeq(_)
SetToSeq(S) ==
    IF S = {} THEN <<>>
    ELSE LET x == CHOOSE y \in S : TRUE IN <<x>> \o SetToSeq(S \ {x})

\* the orders in which `range aws.params` may visit the keys: Go leaves
\* the iteration order of a map unspecified, so every order is possible
IterationOrders(prm) ==
    LET base == SetToSeq(DOMAIN prm)
    IN  {[i \in 1..Len(base) |-> base[p[i]]] : p \in Permutations(1..Len(base))}

\* query = append(query, k+"="+v) in iteration order
RangeParams(prm, order) ==
    [i \in 1..Len(order) |-> order[i] \o S_EQ \o prm[order[i]]]

\* a plausible slip: host and path change places in the format arguments
SignString_pathFirst(host, canonical) ==
    S_GET \o S_NL \o S_PATH \o S_NL \o host \o S_NL \o canonical

\* fmt.Sprintf("%s\n%s\n%s\n%s", "GET", cred.host, "/onca/xml", joined)
SignString(host, canonical) ==
    S_GET \o S_NL \o host \o S_NL \o S_PATH \o S_NL \o canonical

\* signRequest(aws, cred) for one iteration order of the map
signRequest(prm, crd, order) ==
    LET query == SortStrings(RangeParams(prm, order))
        signString == SignString(crd.host, Join(query, S_AMP))
    IN  [query |-> Join(query, S_AMP),
         sorted |-> query,
         signString |-> signString,
         signature |-> signHmacSha256(signString, crd.secret)]

\* "http://" + cred.host + "/onca/xml" + "?" + query + "&Signature=" + signature
RequestURL(host, query, signature) ==
    [text |-> S_HTTP \o host \o S_PATH \o S_QMARK \o query \o S_SIGPARAM,
     signature |-> signature]

(***************************************************************************)
(* signRequest as a function of its arguments: the arguments are drawn,    *)
(* the function is applied twice, and the request URL is built from the    *)
(* first result as lookupItem builds it.                                   *)
(***************************************************************************)
ParamKeys == {<<65>>, <<66>>, <<65, 45>>, <<65, 66>>}      \* "A", "B", "A-", "AB"
ParamValues == {<<49>>, <<50>>}                            \* "1", "2"
SignHosts == {S_HOST, <<104>>}                             \* the host of main, "h"
SignSecrets == {<<116, 101, 115, 116, 115, 101, 99, 114, 101, 116>>, <<>>}  \* "testsecret", ""

ParamMaps ==
    UNION {[ks -> ParamValues] : ks \in {k \in SUBSET ParamKeys : Cardinality(k) <= MaxParams}}

InitSign ==
    /\ env = NoValue
    /\ pc = "signRequest"
    /\ outcome = "running"
    /\ cred \in [host : SignHosts, accessKey : {<<>>}, secret : SignSecrets]
    /\ params \in ParamMaps
    /\ signed = NoValue
    /\ signed2 = NoValue
    /\ request = NoValue
    /\ httpGets = <<>>
    /\ response = NoValue
    /\ itemXml = NoValue
    /\ item = NoValue
    /\ stdout = <<>>
    /\ WishIdle

\* query, signature := signRequest(q, cred)
SignRequestCall ==
    /\ pc = "signRequest"
    /\ \E order \in IterationOrders(params) :
          signed' = [order |-> order] @@ signRequest(params, cred, order)
    /\ pc' = "signRequestAgain"
    /\ UNCHANGED <<env, cred, params, signed2, request, httpGets, itemXml, item, stdout, outcome, response, wishVars>>

\* the same call once more, the map iterated in any order again
SignRequestAgain ==
    /\ pc = "signRequestAgain"
    /\ \E order \in IterationOrders(params) :
          signed2' = [order |-> order] @@ signRequest(params, cred, order)
    /\ pc' = "request"
    /\ UNCHANGED <<env, cred, params, signed, request, httpGets, itemXml, item, stdout, outcome, response, wishVars>>

\* request := "http://" + cred.host + "/onca/xml" + "?" + query + "&Signature=" + signature
BuildRequest ==
    /\ pc = "request"
    /\ request' = RequestURL(cred.host, signed.query, signed.signature)
    /\ pc' = "built"
    /\ UNCHANGED <<env, cred, params, signed, signed2, httpGets, itemXml, item, stdout, outcome, response, wishVars>>

NextSign == SignRequestCall \/ SignRequestAgain \/ BuildRequest

SpecSign == InitSign /\ [][NextSign]_vars

(***************************************************************************)
(* Item lookup: newAWSQuery, lookupItem, parseItemAttributes, main         *)
(***************************************************************************)
\* newAWSQuery(host, accessKey) at time `now` (already formatted RFC3339)
newAWSQuery(host, accessKey, now) ==
    [host |-> host,
     accessKey |-> accessKey,
     params |-> (K_Service :> V_Service) @@ (K_Version :> V_Version)
                @@ (K_AssociateTag :> V_AssociateTag)
                @@ (K_Timestamp :> QueryEscape(now))
                @@ (K_AWSAccessKeyId :> accessKey)]

\* q.params["Operation"] = ...; q.params["ItemId"] = itemId; q.params["ResponseGroup"] = ...
LookupParams(crd, itemId, now) ==
    (K_Operation :> V_Operation) @@ (K_ItemId :> itemId)
    @@ (K_ResponseGroup :> V_ResponseGroup)
    @@ newAWSQuery(crd.host, crd.accessKey, now).params

\* the element paths parseItemAttributes reads with String(node)
SingleFields ==
    {"Binding", "EAN", "Edition", "ISBN", "NumberOfPages", "PublicationDate",
     "Publisher", "Title", "ListPrice/Amount", "ListPrice/CurrencyCode"}

\* Path.String(node): the text of the first match, "" when there is none
PathString(node, path) == IF node[path] = <<>> THEN <<>> ELSE node[path][1]

\* parseItemAttributes(node): node maps an element path to the texts of its
\* matches in document order
parseItemAttributes(node) ==
    [author |-> node["Author"],
     binding |-> PathString(node, "Binding"),
     ean |-> PathString(node, "EAN"),
     edition |-> PathString(node, "Edition"),
     isbn |-> PathString(node, "ISBN"),
     pages |-> PathString(node, "NumberOfPages"),
     publicationDate |-> PathString(node, "PublicationDate"),
     publisher |-> PathString(node, "Publisher"),
     title |-> PathString(node, "Title"),
     price |-> PathString(node, "ListPrice/Amount"),
     priceCurrency |-> PathString(node, "ListPrice/CurrencyCode")]

\* the three fmt.Print calls and fmt.Println of main
PrintItem(it) ==
    Join(it.author, S_COMMA) \o S_DELIM
    \o it.title \o S_DELIM \o it.publisher \o S_DELIM \o it.edition \o S_ED
    \o S_DELIM \o it.publicationDate \o S_DELIM
    \o it.binding \o S_DELIM \o it.pages \o S_PAGES \o S_DELIM \o it.isbn
    \o S_DELIM \o it.ean \o S_DELIM \o it.price \o S_DELIM \o it.priceCurrency
    \o S_NL

\* what the process is started with
EnvKeys == {<<>>, <<75, 49>>, <<75, 32, 49>>}            \* "", "K1", "K 1"
EnvSecrets == {<<>>, <<115>>}                            \* "", "s"
ItemIds == {<<66, 48, 49>>, <<65, 38, 66>>}              \* "B01", "A&B"
ArgLists == {<<>>} \cup {<<i>> : i \in ItemIds} \cup {<<i, i>> : i \in ItemIds}
\* time.Now().UTC().Format(time.RFC3339)
Timestamps == {<<50, 48, 49, 53, 45, 48, 51, 45, 48, 49, 84, 49, 50, 58, 48, 48, 58, 48, 48, 90>>}  \* "2015-03-01T12:00:00Z"

\* ItemAttributes blocks a response may hold
EmptyBlock == [p \in SingleFields \cup {"Author"} |-> <<>>]
TitleBlock == [EmptyBlock EXCEPT !["Title"] = <<<<84>>>>]
FullBlock ==
    [p \in SingleFields \cup {"Author"} |->
        IF p = "Author" THEN <<<<65>>, <<66>>>> ELSE <<<<49>>>>]
\* what http.Get and xmlpath.Parse may come back with
Responses ==
    {[kind |-> "transport error"], [kind |-> "unparsable body"]}
    \cup {[kind |-> "document", blocks |-> b] :
            b \in {<<>>, <<EmptyBlock>>, <<TitleBlock>>, <<FullBlock>>, <<TitleBlock, FullBlock>>}}

Init ==
    /\ env \in [AWS_KEY : EnvKeys, AWS_SECRET : EnvSecrets, args : ArgLists]
    /\ pc = "main"
    /\ outcome = "running"
    /\ LookupIdle
    /\ WishIdle

\* main, lines 155-167: the usage check and the credentials
MainStart ==
    /\ pc = "main"
    /\ IF env.AWS_KEY = <<>> \/ Len(env.args) # 1
       THEN /\ outcome' = "exit -1: usage"
            /\ pc' = "exited"
            /\ cred' = cred
       ELSE /\ cred' = [host |-> S_HOST, accessKey |-> env.AWS_KEY, secret |-> env.AWS_SECRET]
            /\ pc' = "lookupItem"
            /\ outcome' = outcome
    /\ UNCHANGED <<env, params, signed, signed2, request, httpGets, itemXml, item, stdout, response, wishVars>>

\* lookupItem(cred, itemId), lines 109-122: the request is built, signed
\* and handed to http.Get
LookupItemRequest ==
    /\ pc = "lookupItem"
    /\ \E now \in Timestamps :
         /\ params' = LookupParams(cred, env.args[1], now)
         /\ \E order \in IterationOrders(params') :
              signed' = signRequest(params', cred, order)
         /\ request' = RequestURL(cred.host, signed'.query, signed'.signature)
         /\ httpGets' = Append(httpGets, request')
    /\ pc' = "http.Get"
    /\ UNCHANGED <<env, cred, signed2, itemXml, item, stdout, outcome, response, wishVars>>

\* lookupItem, lines 122-130: http.Get returns and the body is parsed
LookupItemResponse ==
    /\ pc = "http.Get"
    /\ \E resp \in Responses :
         /\ response' = resp
         \* resp is nil after a transport error: resp.Body panics
         /\ \/ /\ resp.kind = "transport error"
               /\ outcome' = "panic: nil pointer dereference"
               /\ pc' = "exited"
               /\ itemXml' = itemXml
            \* xmlpath.Parse returned err: panic(err)
            \/ /\ resp.kind = "unparsable body"
               /\ outcome' = "panic: xmlpath.Parse error"
               /\ pc' = "exited"
               /\ itemXml' = itemXml
            \/ /\ resp.kind = "document"
               /\ itemXml' = resp
               /\ pc' = "extract"
               /\ outcome' = outcome
    /\ UNCHANGED <<env, cred, params, signed, signed2, request, httpGets, item, stdout, wishVars>>

\* a plausible slip: the result of iter.Next() is not looked at
MainExtract_unchecked ==
    /\ pc = "extract"
    /\ item' = parseItemAttributes(IF itemXml.blocks = <<>> THEN EmptyBlock ELSE itemXml.blocks[1])
    /\ stdout' = PrintItem(item')
    /\ outcome' = "exit 0"
    /\ pc' = "exited"
    /\ UNCHANGED <<env, cred, params, signed, signed2, request, httpGets, itemXml, response, wishVars>>

\* main, lines 170-183: the ItemAttributes block and the output
MainExtract ==
    /\ pc = "extract"
    /\ IF itemXml.blocks = <<>>
       THEN /\ outcome' = "panic: Cannot parse response! [Wrong credentials?]"
            /\ UNCHANGED <<item, stdout>>
       ELSE /\ item' = parseItemAttributes(itemXml.blocks[1])
            /\ stdout' = PrintItem(item')
            /\ outcome' = "exit 0"
    /\ pc' = "exited"
    /\ UNCHANGED <<env, cred, params, signed, signed2, request, httpGets, itemXml, response, wishVars>>

Next == MainStart \/ LookupItemRequest \/ LookupItemResponse \/ MainExtract

Spec == Init /\ [][Next]_vars

(***************************************************************************)
(* Wishlist export: parseItemData, filter, getPage, main                   *)
(*                                                                         *)
(* A page text is described by what the regular expressions of the source  *)
(* find in it: its length in bytes, the matches of the item-start marker   *)
(* in document order, and, for an item html id, where the image container  *)
(* and the price label of that id end and what the follow-up expressions   *)
(* capture behind them.  A submatch list is a sequence, empty when the     *)
(* expression does not match; Sub(m, i) is Go's m[i].                      *)
(***************************************************************************)
\* page[idx : idx+1000], line 281
ImageWindow == 1000
\* page[idx-50 : idx+150], line 293
PriceBefore == 50
PriceAfter == 150
\* page[y[0] : y[1]+1000], line 338
ItemWindow == 1000
\* len(`<a id="itemName_`) + len(`"`), line 333
MarkerOverhead == 17

Sub(m, i) == m[i + 1]

\* s[lo:hi] of a string of length n panics unless 0 <= lo <= hi <= n
SliceInRange(lo, hi, n) == 0 <= lo /\ lo <= hi /\ hi <= n

IsSpace(c) == c \in {9, 10, 12, 13, 32}

\* FindStringSubmatch of "(.*?)\s\((.*?)\)\s*" on the byline: the author up to
\* the first space that is followed by "(", the binding up to the next ")"
AuthorAndBinding(text) ==
    LET opens == {i \in 1..(Len(text) - 1) :
                     /\ IsSpace(text[i]) /\ text[i + 1] = 40
                     /\ \E j \in (i + 2)..Len(text) : text[j] = 41}
    IN  IF opens = {} THEN <<>>
        ELSE LET i == CHOOSE o \in opens : \A o2 \in opens : o <= o2
                 j == CHOOSE c \in (i + 2)..Len(text) :
                        /\ text[c] = 41
                        /\ \A c2 \in (i + 2)..(c - 1) : text[c2] # 41
             IN  <<SubSeq(text, 1, j), SubSeq(text, 1, i - 1), SubSeq(text, i + 2, j - 1)>>

NoMatchAt == [end |-> -1, sub |-> <<>>]

\* r.FindStringIndex(page) for the image container of itemid, and what the
\* img expression captures behind it
ImageOf(pg, itemid) == IF itemid \in DOMAIN pg.image THEN pg.image[itemid] ELSE NoMatchAt

\* r.FindStringIndex(page) for the price label of itemid, and what the span
\* expression captures around it
PriceOf(pg, itemid) == IF itemid \in DOMAIN pg.price THEN pg.price[itemid] ELSE NoMatchAt

S_GBP == <<71, 66, 80>>  \* "GBP"

\* lines 247-252
ItemAmazonId(frag) == IF Len(frag.dp) # 0 THEN Sub(frag.dp, 1) ELSE <<>>

\* lines 254-266
ItemAuthor(frag) ==
    IF Len(frag.by) # 0
    THEN LET authAndBind == AuthorAndBinding(Sub(frag.by, 1))
         IN  IF Len(authAndBind) = 0
             THEN [author |-> Sub(frag.by, 1), binding |-> <<>>]
             ELSE [author |-> Sub(authAndBind, 1), binding |-> Sub(authAndBind, 2)]
    ELSE [author |-> <<>>, binding |-> <<>>]

\* lines 268-273
ItemTitle(frag) == IF Len(frag.title) # 0 THEN Sub(frag.title, 1) ELSE <<>>

\* lines 295-301: price[1][0] == 0xA3 compares the first byte
PriceAndCurrency(text) ==
    IF Len(text) > 0 /\ text[1] = 163
    THEN [currency |-> S_GBP, price |-> SubSeq(text, 2, Len(text))]
    ELSE [currency |-> <<>>, price |-> text]

\* parseItemData(page, itemid, item): a WishlistItem, or the panic it ends in
parseItemData(pg, itemid, frag) ==
    LET img == ImageOf(pg, itemid)
        prc == PriceOf(pg, itemid)
        ab == ItemAuthor(frag)
        pcur == IF prc.end # -1 /\ Len(prc.sub) # 0
                THEN PriceAndCurrency(Sub(prc.sub, 1))
                ELSE [currency |-> <<>>, price |-> <<>>]
    IN  IF img.end # -1 /\ ~SliceInRange(img.end, img.end + ImageWindow, pg.len)
        THEN [panic |-> "slice bounds out of range (image window)"]
        ELSE IF prc.end # -1
                /\ ~SliceInRange(prc.end - PriceBefore, prc.end + PriceAfter, pg.len)
        THEN [panic |-> "slice bounds out of range (price window)"]
        ELSE [panic |-> "",
              ret |-> [amazonId |-> ItemAmazonId(frag),
                       author |-> ab.author,
                       binding |-> ab.binding,
                       title |-> ItemTitle(frag),
                       imageUrl |-> IF img.end # -1 /\ Len(img.sub) # 0
                                    THEN Sub(img.sub, 1) ELSE <<>>,
                       currency |-> pcur.currency,
                       price |-> pcur.price]]

\* html.UnescapeString, for the one entity the texts of the model use: &amp;
RECURSIVE UnescapeString(_)
UnescapeString(x) ==
    IF x = <<>> THEN <<>>
    ELSE IF Len(x) >= 5 /\ SubSeq(x, 1, 5) = <<38, 97, 109, 112, 59>>
         THEN <<38>> \o UnescapeString(SubSeq(x, 6, Len(x)))
         ELSE <<Head(x)>> \o UnescapeString(Tail(x))

\* strings.Replace(x, "\u200B", "", -1): U+200B is the bytes E2 80 8B
RECURSIVE RemoveZeroWidthSpace(_)
RemoveZeroWidthSpace(x) ==
    IF x = <<>> THEN <<>>
    ELSE IF Len(x) >= 3 /\ SubSeq(x, 1, 3) = <<226, 128, 139>>
         THEN RemoveZeroWidthSpace(SubSeq(x, 4, Len(x)))
         ELSE <<Head(x)>> \o RemoveZeroWidthSpace(Tail(x))

\* filter(x)
filter(x) == RemoveZeroWidthSpace(UnescapeString(x))

\* the operands of fmt.Println, lines 346-353
PrintedItem(wi) ==
    [amazonId |-> wi.amazonId, author |-> filter(wi.author), title |-> filter(wi.title),
     binding |-> wi.binding, currency |-> wi.currency, price |-> wi.price,
     imageUrl |-> wi.imageUrl]

\* a plausible slip: a failed fetch is swallowed and an empty page returned
getPage_swallow(result, text) ==
    IF result = "ok" THEN [panic |-> "", str |-> text]
    ELSE [panic |-> "", str |-> [len |-> 0, items |-> <<>>, image |-> <<>>, price |-> <<>>, next |-> FALSE]]

\* getPage(url): `result` is what http.Get and html.Parse do for the url,
\* `text` the rendered page the site serves there
getPage(result, text) ==
    \* resp is nil after a transport error: resp.Body panics
    IF result = "transport error" THEN [panic |-> "nil pointer dereference"]
    \* html.Parse returned err: panic(err)
    ELSE IF result = "unparsable body" THEN [panic |-> "html.Parse error"]
    ELSE [panic |-> "", str |-> text]

(***************************************************************************)
(* The pages of the model.                                                 *)
(***************************************************************************)
\* largest number of pages of a wishlist
MaxPages == 2

PageLens == {1200, 2200, 2700}
ItemStarts == <<100, 1300>>
ItemHtmlIds == <<<<65, 49>>, <<66, 50>>>>                 \* "A1", "B2"
T_AmazonId == <<66, 48, 48, 88>>                          \* "B00X"
T_Byline == <<74, 32, 83, 32, 40, 80, 41>>                \* "J S (P)"
T_BylinePlain == <<74, 32, 83>>                           \* "J S"
T_Title == <<84, 38, 97, 109, 112, 59, 226, 128, 139, 84>> \* "T&amp;<U+200B>T"
T_ImageUrl == <<104, 116, 116, 112, 58, 47, 47, 105>>     \* "http://i"
T_Price == <<49, 50, 46, 57, 57>>                         \* "12.99"
\* U+00A3 as Go strings and html.Render write it (UTF-8), and as the single
\* byte of an ISO-8859-1 body that html.Parse passed through
PoundUtf8 == <<194, 163>>
PoundLatin1 == <<163>>

Match(g1) == <<g1, g1>>

\* what the three expressions applied to the fragment find
FullFragment == [dp |-> Match(T_AmazonId), by |-> Match(T_Byline), title |-> Match(T_Title)]
BareFragment == [dp |-> <<>>, by |-> <<>>, title |-> <<>>]
Fragments ==
    [dp : {<<>>, Match(T_AmazonId)},
     by : {<<>>, Match(T_Byline), Match(T_BylinePlain)},
     title : {<<>>, Match(T_Title)}]

\* the k-th item of a page: its marker, and with detail "full" its image
\* container 300 bytes and its price label 500 bytes behind the marker
ItemMarker(k, detail) ==
    [start |-> ItemStarts[k],
     end |-> ItemStarts[k] + MarkerOverhead + Len(ItemHtmlIds[k]),
     id |-> ItemHtmlIds[k],
     frag |-> IF detail = "full" THEN FullFragment ELSE BareFragment,
     image |-> IF detail = "full"
               THEN [end |-> ItemStarts[k] + 300, sub |-> Match(T_ImageUrl)]
               ELSE NoMatchAt,
     price |-> IF detail = "full"
               THEN [end |-> ItemStarts[k] + 500, sub |-> Match(PoundLatin1 \o T_Price)]
               ELSE NoMatchAt]

\* which items a page holds, and how detailed each is
Layouts ==
    UNION {[ks -> {"full", "bare"}] : ks \in SUBSET (1..Len(ItemStarts))}

RECURSIVE MarkersOf(_, _)
MarkersOf(layout, k) ==
    IF k > Len(ItemStarts) THEN <<>>
    ELSE (IF k \in DOMAIN layout THEN <<ItemMarker(k, layout[k])>> ELSE <<>>)
         \o MarkersOf(layout, k + 1)

MakePage(len, layout, next) ==
    LET ms == MarkersOf(layout, 1)
        ids == {ms[i].id : i \in 1..Len(ms)}
        of(id) == CHOOSE i \in 1..Len(ms) : ms[i].id = id
    IN  [len |-> len,
         items |-> ms,
         image |-> [id \in ids |-> ms[of(id)].image],
         price |-> [id \in ids |-> ms[of(id)].price],
         next |-> next]

\* the markers lie inside the text
Fits(len, layout) == \A k \in DOMAIN layout : ItemMarker(k, layout[k]).end <= len

WishPages(next) ==
    {MakePage(len, layout, next) : <<len, layout>> \in
        {pl \in PageLens \X Layouts : Fits(pl[1], pl[2])}}

\* a wishlist of k pages: every page but the last holds a "next" link
Sites ==
    UNION {{s \in [1..k -> WishPages(TRUE) \cup WishPages(FALSE)] :
              \A i \in 1..k : s[i].next = (i < k)} : k \in 1..MaxPages}

EmptyPage == [len |-> 0, items |-> <<>>, image |-> <<>>, price |-> <<>>, next |-> FALSE]

\* the rendered text the site serves as page n
PageText(s, n) == IF n \in 1..Len(s) THEN s[n] ELSE EmptyPage

FetchResults == {"ok", "transport error", "unparsable body"}

WishlistIds == {<<87, 49>>}                               \* "W1"

InitWish ==
    /\ env \in [args : {<<>>} \cup {<<w>> : w \in WishlistIds}]
    /\ pc = "main"
    /\ outcome = "running"
    /\ LookupIdle
    /\ site \in Sites
    /\ pageNo = 1
    /\ page = NoValue
    /\ scanIdx = 1
    /\ fetched = <<>>
    /\ yielded = <<>>
    /\ parseArgs = NoValue
    /\ parsed = NoValue

\* main, lines 314-323: the usage check
WishStart ==
    /\ pc = "main"
    /\ IF Len(env.args) # 1
       THEN outcome' = "exit -1: usage" /\ pc' = "exited"
       ELSE outcome' = outcome /\ pc' = "FetchPage"
    /\ UNCHANGED <<env, lookupVars, wishVars>>

\* main, lines 326-330: page := getPage(pageUrl)
FetchPage ==
    /\ pc = "FetchPage"
    /\ fetched' = Append(fetched, pageNo)
    /\ \E result \in FetchResults :
         /\ response' = [kind |-> result]
         /\ LET got == getPage(result, PageText(site, pageNo))
            IN  IF got.panic # ""
                THEN /\ outcome' = "panic: " \o got.panic
                     /\ pc' = "exited"
                     /\ UNCHANGED <<page, scanIdx>>
                ELSE /\ page' = got.str
                     /\ scanIdx' = 1
                     /\ pc' = "ScanItems"
                     /\ outcome' = outcome
    /\ UNCHANGED <<env, cred, params, signed, signed2, request, httpGets, itemXml,
                   item, stdout, site, pageNo, yielded, parseArgs, parsed>>

\* main, lines 335-356: one iteration of the loop over idx
ScanItem ==
    /\ pc = "ScanItems"
    /\ scanIdx <= Len(page.items)
    /\ LET y == page.items[scanIdx] IN
       \* item := page[y[0] : y[1]+1000]
       IF ~SliceInRange(y.start, y.end + ItemWindow, page.len)
       THEN /\ outcome' = "panic: slice bounds out of range (item window)"
            /\ pc' = "exited"
            /\ UNCHANGED <<scanIdx, yielded>>
       ELSE LET wi == parseItemData(page, y.id, y.frag) IN
            IF wi.panic # ""
            THEN /\ outcome' = "panic: " \o wi.panic
                 /\ pc' = "exited"
                 /\ UNCHANGED <<scanIdx, yielded>>
            ELSE /\ yielded' = Append(yielded, [page |-> pageNo, marker |-> scanIdx,
                                               line |-> PrintedItem(wi.ret)])
                 /\ scanIdx' = scanIdx + 1
                 /\ UNCHANGED <<pc, outcome>>
    /\ UNCHANGED <<env, lookupVars, site, pageNo, page, fetched, parseArgs, parsed>>

\* main, lines 358-363: the "Next" link decides whether the loop goes on
CheckNext ==
    /\ pc = "ScanItems"
    /\ scanIdx > Len(page.items)
    /\ IF page.next
       THEN /\ pageNo' = pageNo + 1
            /\ pc' = "FetchPage"
            /\ outcome' = outcome
       ELSE /\ pageNo' = pageNo
            /\ pc' = "exited"
            /\ outcome' = "exit 0"
    /\ UNCHANGED <<env, lookupVars, site, page, scanIdx, fetched, yielded, parseArgs, parsed>>

NextWish == WishStart \/ FetchPage \/ ScanItem \/ CheckNext

SpecWish == InitWish /\ [][NextWish]_vars

(***************************************************************************)
(* parseItemData as a function of its arguments: a page text, an item html *)
(* id and an item fragment are drawn and the function is applied.          *)
(***************************************************************************)
ParseLens == {100, 1200, 2400}
\* where the container of the id may end: 47 is the earliest a rendered page
\* allows, `<html><head></head><body>` being 25 bytes and the label 22
MatchEnds == {-1, 47, 400, 1600}
PriceTexts ==
    {<<>>, T_Price, PoundUtf8 \o T_Price, PoundLatin1 \o T_Price, PoundLatin1}
\* item html ids as the marker expression captures them: [A-Z0-9]+
ParseItemIds == {<<65, 49>>, <<90, 57>>}                  \* "A1", "Z9"

\* page texts whose image container and price label are those of "A1"
ParsePages ==
    {[len |-> n,
      items |-> <<>>,
      image |-> (<<65, 49>> :> [end |-> ie, sub |-> IF ie = -1 THEN <<>> ELSE isub]),
      price |-> (<<65, 49>> :> [end |-> pe, sub |-> IF pe = -1 THEN <<>> ELSE psub]),
      next |-> FALSE] :
        <<n, ie, pe>> \in {t \in ParseLens \X MatchEnds \X MatchEnds : t[2] <= t[1] /\ t[3] <= t[1]},
        isub \in {<<>>, Match(T_ImageUrl)},
        psub \in {<<>>} \cup {Match(t) : t \in PriceTexts}}

InitParse ==
    /\ env = NoValue
    /\ pc = "parseItemData"
    /\ outcome = "running"
    /\ LookupIdle
    /\ site = <<>>
    /\ pageNo = 1
    /\ page \in ParsePages
    /\ scanIdx = 1
    /\ fetched = <<>>
    /\ yielded = <<>>
    /\ parseArgs \in [itemid : ParseItemIds, item : Fragments]
    /\ parsed = NoValue

\* wi := parseItemData(page, itemid, item)
ParseItemDataCall ==
    /\ pc = "parseItemData"
    /\ parsed' = parseItemData(page, parseArgs.itemid, parseArgs.item)
    /\ pc' = "returned"
    /\ UNCHANGED <<env, outcome, lookupVars, site, pageNo, page, scanIdx, fetched,
                   yielded, parseArgs>>

NextParse == ParseItemDataCall

SpecParse == InitParse /\ [][NextParse]_vars

(***************************************************************************)
(* Properties                                                              *)
(***************************************************************************)
\* a <= b in byte order, stated without the comparison the sort uses
ByteLeq(a, b) ==
    \E n \in 0..Len(a) :
        /\ n <= Len(b)
        /\ \A i \in 1..n : a[i] = b[i]
        /\ \/ n = Len(a)
           \/ n < Len(b) /\ a[n + 1] < b[n + 1]

RECURSIVE OffsetOf(_, _)
\* where part i starts in the "&"-joined text, counted from 0
OffsetOf(parts, i) == IF i = 1 THEN 0 ELSE OffsetOf(parts, i - 1) + Len(parts[i - 1]) + 1

\* q is the parts in order with a single "&" between neighbours
IsAmpJoin(q, parts) ==
    IF parts = <<>> THEN q = <<>>
    ELSE /\ Len(q) = OffsetOf(parts, Len(parts)) + Len(parts[Len(parts)])
         /\ \A i \in 1..Len(parts) :
              /\ SubSeq(q, OffsetOf(parts, i) + 1, OffsetOf(parts, i) + Len(parts[i])) = parts[i]
              /\ i > 1 => q[OffsetOf(parts, i)] = 38

SignDone == pc \in {"request", "built"}

\* C3: two runs of signRequest over the same key/value set, host and secret
\* return the same canonical query and the same signature, whatever order the
\* map was iterated in.
C3_SignRequestDeterministic ==
    SignDone =>
        /\ signed2.query = signed.query
        /\ signed2.signature = signed.signature

\* two runs that saw the map in different orders, the second one needing the sort
C3_Witness ==
    /\ SignDone
    /\ signed.order # signed2.order
    /\ RangeParams(params, signed2.order) # signed2.sorted

IsUpperHex(c) == c \in 48..57 \/ c \in 65..70

\* v is the escaped form of some text: unreserved bytes, "+" and %XX only
RECURSIVE IsEscaped(_)
IsEscaped(v) ==
    IF v = <<>> THEN TRUE
    ELSE IF Unreserved(v[1]) \/ v[1] = 43 THEN IsEscaped(Tail(v))
    ELSE /\ v[1] = 37
         /\ Len(v) >= 3
         /\ IsUpperHex(v[2]) /\ IsUpperHex(v[3])
         /\ IsEscaped(SubSeq(v, 4, Len(v)))

\* C5: when lookupItem calls signRequest, every value of the parameter map is
\* already percent-escaped, whatever access key and item id were supplied.
C5_ParamsEscaped ==
    httpGets # <<>> => \A k \in DOMAIN params : IsEscaped(params[k])

\* C8: no HTTP GET is issued in a run where the access key or the secret is empty.
C8_NoGetWithoutCredentials ==
    (env.AWS_KEY = <<>> \/ env.AWS_SECRET = <<>>) => httpGets = <<>>

\* C9: the outcome of a lookup is that of its first failing stage: the GET that
\* could not be completed, the body that could not be parsed, the document
\* without an ItemAttributes block; an ItemAttributes record is produced only
\* when none of them fails, and the request is never issued a second time.
C9_LookupOutcome ==
    /\ Len(httpGets) <= 1
    /\ item # NoValue =>
          /\ response.kind = "document"
          /\ response.blocks # <<>>
          /\ item = parseItemAttributes(response.blocks[1])
    /\ (pc = "exited" /\ response # NoValue) =>
          /\ response.kind = "transport error" =>
                outcome = "panic: nil pointer dereference" /\ item = NoValue /\ stdout = <<>>
          /\ response.kind = "unparsable body" =>
                outcome = "panic: xmlpath.Parse error" /\ item = NoValue /\ stdout = <<>>
          /\ (response.kind = "document" /\ response.blocks = <<>>) =>
                /\ outcome = "panic: Cannot parse response! [Wrong credentials?]"
                /\ item = NoValue /\ stdout = <<>>
          /\ (response.kind = "document" /\ response.blocks # <<>>) =>
                outcome = "exit 0" /\ item # NoValue

\* a well-formed document without an ItemAttributes block ended the lookup
C9_Witness ==
    /\ pc = "exited"
    /\ response # NoValue
    /\ response.kind = "document"
    /\ response.blocks = <<>>
    /\ outcome = "panic: Cannot parse response! [Wrong credentials?]"
    /\ Len(httpGets) = 1

\* the markers of the yielded items that came from page n, in yield order
RECURSIVE MarkersYielded(_, _)
MarkersYielded(ys, n) ==
    IF ys = <<>> THEN <<>>
    ELSE (IF Head(ys).page = n THEN <<Head(ys).marker>> ELSE <<>>)
         \o MarkersYielded(Tail(ys), n)

\* one entry per marker of every page of the wishlist, page by page
RECURSIVE ExpectedYield(_, _)
ExpectedYield(s, n) ==
    IF n > Len(s) THEN <<>>
    ELSE [i \in 1..Len(s[n].items) |-> <<n, i>>] \o ExpectedYield(s, n + 1)

\* C1: on a wishlist whose pages but the last hold a "next" link, the loop
\* fetches pages 1..k in order, each once, never page k+1, ends without error
\* when no fetch failed, and has then yielded the items of all k pages.
C1_PaginationContract ==
    /\ fetched = [i \in 1..Len(fetched) |-> i]
    /\ Len(fetched) <= Len(site)
    /\ (pc = "exited" /\ response # NoValue /\ response.kind = "ok") => outcome = "exit 0"
    /\ outcome = "exit 0" =>
          /\ Len(fetched) = Len(site)
          /\ [i \in 1..Len(yielded) |-> <<yielded[i].page, yielded[i].marker>>]
               = ExpectedYield(site, 1)

\* C2: a fetch of page n that fails in transport or in parsing ends the export
\* in the matching panic; no item of page n is yielded, no later page is
\* fetched, and the export does not end as done.
C2_FetchFailureAborts ==
    (response # NoValue /\ response.kind # "ok") =>
        /\ pc = "exited"
        /\ response.kind = "transport error" => outcome = "panic: nil pointer dereference"
        /\ response.kind = "unparsable body" => outcome = "panic: html.Parse error"
        /\ fetched[Len(fetched)] = pageNo
        /\ Len(fetched) = pageNo
        /\ MarkersYielded(yielded, pageNo) = <<>>

\* the second page failed in transport after the first page had yielded an item
C2_Witness ==
    /\ response # NoValue
    /\ response.kind = "transport error"
    /\ fetched = <<1, 2>>
    /\ yielded # <<>>
    /\ pc = "exited"

\* the panics that arise inside parseItemData
ParsePanics ==
    {"panic: slice bounds out of range (image window)",
     "panic: slice bounds out of range (price window)"}

\* C10: the scan of a fetched page yields one item per marker of the page, in
\* document order, wherever the marker lies, and the items of page n are all
\* yielded before page n+1 is fetched.  (A scan that stops inside
\* parseItemData is the subject of C6 and is set aside here.)
C10_ScanYieldsEveryMarker ==
    /\ \A i, j \in 1..Len(yielded) : i < j => yielded[i].page <= yielded[j].page
    /\ pc = "ScanItems" =>
          MarkersYielded(yielded, pageNo) = [i \in 1..(scanIdx - 1) |-> i]
    /\ (/\ response # NoValue /\ response.kind = "ok"
        /\ pc \in {"FetchPage", "exited"} /\ outcome \notin ParsePanics) =>
          MarkersYielded(yielded, fetched[Len(fetched)])
            = [i \in 1..Len(PageText(site, fetched[Len(fetched)]).items) |-> i]

\* C6: parseItemData returns a WishlistItem for every page text, item html id
\* and fragment, and a field whose pattern does not match is empty.
C6_ParseItemDataNeverFails ==
    pc = "returned" =>
        /\ parsed.panic = ""
        /\ parseArgs.item.dp = <<>> => parsed.ret.amazonId = <<>>
        /\ parseArgs.item.by = <<>> => parsed.ret.author = <<>> /\ parsed.ret.binding = <<>>
        /\ parseArgs.item.title = <<>> => parsed.ret.title = <<>>
        /\ ImageOf(page, parseArgs.itemid).sub = <<>> => parsed.ret.imageUrl = <<>>
        /\ PriceOf(page, parseArgs.itemid).sub = <<>> =>
              parsed.ret.price = <<>> /\ parsed.ret.currency = <<>>

\* how many bytes of text the pound sign takes at its start: 2 as UTF-8, 1 as
\* ISO-8859-1, 0 when the text does not start with it
PoundGlyphLen(text) ==
    IF Len(text) >= 2 /\ SubSeq(text, 1, 2) = PoundUtf8 THEN 2
    ELSE IF Len(text) >= 1 /\ SubSeq(text, 1, 1) = PoundLatin1 THEN 1
    ELSE 0

\* C7: a price text that begins with the pound sign gives currency "GBP" and
\* the text behind the glyph as price; any other text gives an empty currency
\* and the whole text as price.
C7_CurrencyRule ==
    (pc = "returned" /\ parsed.panic = "" /\ PriceOf(page, parseArgs.itemid).sub # <<>>) =>
        LET text == Sub(PriceOf(page, parseArgs.itemid).sub, 1)
            n == PoundGlyphLen(text)
        IN  IF n > 0
            THEN /\ parsed.ret.currency = <<71, 66, 80>>
                 /\ parsed.ret.price = SubSeq(text, n + 1, Len(text))
            ELSE /\ parsed.ret.currency = <<>>
                 /\ parsed.ret.price = text

====
